---- MODULE Spec2Model ----
(***************************************************************************)
(* Text selection and passage comparison of legislice/enactments.py.       *)
(*                                                                         *)
(* A text is a sequence of one-character strings.  A position selector is  *)
(* a record [start, end] for the half-open range [start, end); a position  *)
(* set (TextPositionSet) is a sequence of selectors.  A node of the        *)
(* citation tree is a record [node, content, children, selection].         *)
(*                                                                         *)
(* EnactmentPassage declares only the fields enactment and selection       *)
(* (enactments.py:519-520) while its methods read self.node,               *)
(* self.children, self.nested_children, self.padded_length and             *)
(* self._selection and call passage methods on child nodes.  The model     *)
(* reads these the way the methods use them: the structural attributes     *)
(* are those of the passage's Enactment, _selection is the storage behind  *)
(* selection, and every node of a passage's tree carries a selection       *)
(* (empty until the propagator or a merge assigns one).                    *)
(*                                                                         *)
(* The anchorpoint types (TextPositionSet, TextQuoteSelector,              *)
(* TextSequence) are not part of src/; their operations are modelled from  *)
(* sections 3 and 4 of the specification.  Selectors of the model always   *)
(* have an integer end (the open-ended end=None is not modelled).          *)
(***************************************************************************)
EXTENDS Integers, Sequences, FiniteSets, TLC

VARIABLES
    heap,     \* passage objects by reference: 1..MaxObjects -> node tree or Null
    err,      \* error reported by the last operation, "none" if it returned
    ret,      \* reference returned by the last operation (0: nothing)
    last,     \* the last operation and its arguments
    steps,    \* number of operations run so far
    input,    \* inputs drawn for a pure function
    output    \* result of applying it, Null before

vars == <<heap, err, ret, last, steps, input, output>>

Null == [null |-> TRUE]

\* ----------------------------------------------------------------- bounds
MaxPos == 7
MaxSteps == 2
MaxRanges == 2

\* ------------------------------------------------------------------ texts
SP == " "
MarginCharacters == {",", ".", "\"", "'", " ", ";", "[", "]", "(", ")"}
StripCharacters == {",", ":", ";", ".", " "}

Range(seq) == {seq[i] : i \in DOMAIN seq}

Min(S) == CHOOSE x \in S : \A y \in S : x <= y

Max(S) == CHOOSE x \in S : \A y \in S : x >= y

\* Python's text[s:e]
Slice(text, s, e) ==
    LET n == Len(text)
        lo == IF s < 0 THEN (IF n + s < 0 THEN 0 ELSE n + s) ELSE (IF s > n THEN n ELSE s)
        hi == IF e < 0 THEN (IF n + e < 0 THEN 0 ELSE n + e) ELSE (IF e > n THEN n ELSE e)
    IN  IF lo >= hi THEN <<>> ELSE SubSeq(text, lo + 1, hi)

RECURSIVE LStrip(_, _)
LStrip(text, chars) ==
    IF text # <<>> /\ Head(text) \in chars THEN LStrip(Tail(text), chars) ELSE text

RECURSIVE RStrip(_, _)
RStrip(text, chars) ==
    IF text # <<>> /\ text[Len(text)] \in chars
    THEN RStrip(SubSeq(text, 1, Len(text) - 1), chars)
    ELSE text

\* Python's text.strip(chars)
Strip(text, chars) == RStrip(LStrip(text, chars), chars)

\* Python's needle in text
IsSubstring(needle, text) ==
    \E i \in 0..(Len(text) - Len(needle)) : Slice(text, i, i + Len(needle)) = needle

RECURSIVE Join(_)
\* " ".join(parts)
Join(parts) ==
    IF parts = <<>> THEN <<>>
    ELSE IF Len(parts) = 1 THEN parts[1]
    ELSE parts[1] \o <<SP>> \o Join(Tail(parts))

\* ---------------------------------------------------------- position sets
Sel(s, e) == [start |-> s, end |-> e]

\* the positions a position set covers (its RangeSet)
Covered(set) == UNION {s.start .. (s.end - 1) : s \in Range(set)}

RECURSIVE FromRanges(_)
\* the ascending maximal ranges of a set of positions
FromRanges(S) ==
    IF S = {} THEN <<>>
    ELSE LET s == Min(S)
             e == Min({q \in (s + 1)..(Max(S) + 1) : q \notin S})
         IN  <<Sel(s, e)>> \o FromRanges({p \in S : p >= e})

RECURSIVE InsertByStart(_, _)
InsertByStart(sorted, s) ==
    IF sorted = <<>> THEN <<s>>
    ELSE IF s.start < Head(sorted).start THEN <<s>> \o sorted
    ELSE <<Head(sorted)>> \o InsertByStart(Tail(sorted), s)

RECURSIVE SortByStart(_)
\* TextPositionSet(selectors=...): the selectors ordered by start
SortByStart(selectors) ==
    IF selectors = <<>> THEN <<>>
    ELSE InsertByStart(SortByStart(SubSeq(selectors, 1, Len(selectors) - 1)),
                       selectors[Len(selectors)])

\* a + b on two position sets
SetUnion(a, b) == FromRanges(Covered(a) \cup Covered(b))

\* a & b
SetIntersection(a, b) == FromRanges(Covered(a) \cap Covered(b))

\* set + delta, set - delta on an integer: every range shifted
SetOffset(set, delta) ==
    [i \in DOMAIN set |-> Sel(set[i].start + delta, set[i].end + delta)]

\* the gaps add_margin closes: between two ranges, at most margin_width wide,
\* holding only margin characters
MarginGaps(set, text, margin_width) ==
    {g \in {Sel(l.end, r.start) : l \in Range(set), r \in Range(set)} :
        /\ g.start < g.end
        /\ g.end <= g.start + margin_width
        /\ \A c \in Range(Slice(text, g.start, g.end)) : c \in MarginCharacters}

AddMargin(set, text, margin_width) ==
    FromRanges(Covered(set) \cup UNION {g.start .. (g.end - 1) : g \in MarginGaps(set, text, margin_width)})

\* --------------------------------------------------------- text sequences
\* an element of a TextSequence: a passage of text, or None for a gap
Passage(text) == [gap |-> FALSE, text |-> text]

Gap == [gap |-> TRUE, text |-> <<>>]

RECURSIVE RangesAsSequence(_, _, _)
RangesAsSequence(ranges, text, include_nones) ==
    IF ranges = <<>> THEN <<>>
    ELSE LET r == Head(ranges)
             passage == IF r.start < r.end /\ r.start < Len(text)
                        THEN <<Passage(Slice(text, r.start, r.end))>> ELSE <<>>
             gap == IF include_nones /\ r.end < Len(text) THEN <<Gap>> ELSE <<>>
         IN  passage \o gap \o RangesAsSequence(Tail(ranges), text, include_nones)

\* TextPositionSet.as_text_sequence(text, include_nones)
AsTextSequence(set, text, include_nones) ==
    LET ranges == set
    IN  IF ranges # <<>>
        THEN (IF include_nones /\ 0 < ranges[1].start /\ ranges[1].start < Len(text)
              THEN <<Gap>> ELSE <<>>)
             \o RangesAsSequence(ranges, text, include_nones)
        ELSE IF text # <<>> /\ include_nones THEN <<Gap>> ELSE <<>>

\* TextSequence + TextSequence: a trailing and a leading gap become one gap
SequenceAdd(a, b) ==
    IF a # <<>> /\ b # <<>> /\ a[Len(a)].gap /\ b[1].gap THEN a \o Tail(b) ELSE a \o b

\* TextSequence.strip(): without a leading and a trailing gap
SequenceStrip(a) ==
    LET b == IF a # <<>> /\ a[1].gap THEN Tail(a) ELSE a
    IN  IF b # <<>> /\ b[Len(b)].gap THEN SubSeq(b, 1, Len(b) - 1) ELSE b

\* TextPassage.means
PassageMeans(p, q) ==
    ~p.gap /\ ~q.gap /\ Strip(p.text, StripCharacters) = Strip(q.text, StripCharacters)

\* TextPassage >= TextPassage
PassageGe(p, q) == IsSubstring(Strip(q.text, StripCharacters), p.text)

\* TextSequence.means
SequenceMeans(a, b) ==
    LET x == SequenceStrip(a)
        y == SequenceStrip(b)
    IN  /\ Len(x) = Len(y)
        /\ \A i \in DOMAIN x : (x[i].gap /\ y[i].gap) \/ PassageMeans(x[i], y[i])

\* TextSequence >= TextSequence
SequenceGe(a, b) ==
    \A j \in DOMAIN b :
        \E i \in DOMAIN a : b[j].gap \/ (~a[i].gap /\ PassageGe(a[i], b[j]))

\* ------------------------------------------------------------------ nodes
Node(path, content, children) ==
    [node |-> path, content |-> content, children |-> children, selection |-> <<>>]

RECURSIVE text(_)
\* Enactment.text
text(n) ==
    LET with_text == SelectSeq(n.children, LAMBDA child : text(child) # <<>>)
        text_parts == <<n.content>> \o [i \in DOMAIN with_text |-> with_text[i].content]
    IN  Strip(Join(text_parts), {SP})

\* Enactment.padded_length
padded_length(n) == IF n.content # <<>> THEN Len(n.content) + 1 ELSE 0

\* ------------------------------------------------------ selector arguments
\* the selection argument of select, select_more and make_selection: a
\* boolean, position selectors (one or a list, or a TextPositionSet), or a
\* quote selector
SelBool(v) ==
    [kind |-> "bool", value |-> v, selectors |-> <<>>,
     prefix |-> <<>>, exact |-> <<>>, suffix |-> <<>>]

SelPositions(selectors) ==
    [kind |-> "positions", value |-> FALSE, selectors |-> selectors,
     prefix |-> <<>>, exact |-> <<>>, suffix |-> <<>>]

SelSet(selectors) ==
    [kind |-> "set", value |-> FALSE, selectors |-> SortByStart(selectors),
     prefix |-> <<>>, exact |-> <<>>, suffix |-> <<>>]

SelQuote(prefix, exact, suffix) ==
    [kind |-> "quote", value |-> FALSE, selectors |-> <<>>,
     prefix |-> prefix, exact |-> exact, suffix |-> suffix]

\* the result of a function that may raise: err is "none" or the error raised
Ok(set) == [err |-> "none", set |-> set]

Raise(error) == [err |-> error, set |-> <<>>]

\* ------------------------------------------------------- quote resolution
AllSpaces(t) == \A c \in Range(t) : c = SP

\* the places where prefix, exact and suffix match in this order, white space
\* allowed between them: where the match begins and where exact begins
MatchesOf(prefix, exact, suffix, t) ==
    {m \in [begin : 0..Len(t), start : 0..Len(t)] :
        /\ m.begin + Len(prefix) <= m.start
        /\ Slice(t, m.begin, m.begin + Len(prefix)) = prefix
        /\ AllSpaces(Slice(t, m.begin + Len(prefix), m.start))
        /\ (prefix = <<>> => m.begin = m.start)
        /\ m.start + Len(exact) <= Len(t)
        /\ Slice(t, m.start, m.start + Len(exact)) = exact
        /\ \E k \in (m.start + Len(exact))..Len(t) :
            /\ AllSpaces(Slice(t, m.start + Len(exact), k))
            /\ (suffix = <<>> => k = m.start + Len(exact))
            /\ k + Len(suffix) <= Len(t)
            /\ Slice(t, k, k + Len(suffix)) = suffix}

QuoteMatches(q, t) == MatchesOf(Strip(q.prefix, {SP}), q.exact, Strip(q.suffix, {SP}), t)

\* where exact begins in the leftmost of the matches found
LeftmostStart(found) ==
    Max({m.start : m \in {x \in found : x.begin = Min({y.begin : y \in found})}})

RangeFrom(start, length) == <<Sel(start, start + length)>>

LeftmostMatch(exact, found) ==
    IF found = {} \/ exact = <<>> THEN Raise("TextSelectionError")
    ELSE Ok(RangeFrom(LeftmostStart(found), Len(exact)))

\* TextQuoteSelector.as_position (the quote selectors of the model have a
\* non-empty exact)
QuoteAsPosition(q, t) == LeftmostMatch(q.exact, QuoteMatches(q, t))

\* TextQuoteSelector.is_unique_in
QuoteIsUniqueIn(q, t) == Cardinality({m.start : m \in QuoteMatches(q, t)}) = 1

\* TextPositionSelector.as_quote_selector
AsQuoteSelector(selector, t) == SelQuote(<<>>, Slice(t, selector.start, selector.end), <<>>)

\* TextPositionSetFactory(text).from_selection
FromSelection(t, selection) ==
    CASE selection.kind = "bool" ->
            IF selection.value THEN Ok(<<Sel(0, Len(t))>>) ELSE Ok(<<>>)
      [] selection.kind = "quote" -> QuoteAsPosition(selection, t)
      [] OTHER -> Ok(SortByStart(selection.selectors))

\* ----------------------------------------------- selections of an Enactment
\* convert_selection_to_set resolving against the node's own content
convert_selection_in_content(n, selection) ==
    IF selection.kind = "bool" /\ selection.value
    THEN Ok(<<Sel(0, Len(n.content) + 1)>>)
    ELSE FromSelection(n.content, selection)

\* Enactment.convert_selection_to_set
convert_selection_to_set(n, selection) ==
    IF selection.kind = "bool" /\ selection.value
    THEN Ok(<<Sel(0, Len(n.content) + 1)>>)
    ELSE FromSelection(text(n), selection)

\* Enactment.raise_error_for_extra_selector: TRUE when it raises
raise_error_for_extra_selector(n, set) ==
    \E selector \in Range(set) : selector.start > Len(text(n)) + 1

\* Enactment.limit_selection; end = NoEnd stands for end=None
NoEnd == 0 - 1

limit_selection(n, set, start, end) ==
    LET limit == IF end = NoEnd
                 THEN {p \in Covered(set) : p >= start}
                 ELSE start .. (end - 1)
    IN  FromRanges(Covered(set) \cap limit)

\* Enactment.make_selection_of_all_text
make_selection_of_all_text(n) ==
    IF text(n) # <<>> THEN <<Sel(0, Len(text(n)))>> ELSE <<>>

\* make_selection on a selection converted to a position set
make_selection_of_set(n, converted, start, end) ==
    IF converted.err # "none" THEN converted
    ELSE IF raise_error_for_extra_selector(n, converted.set) THEN Raise("ValueError")
    ELSE Ok(limit_selection(n, converted.set, start, end))

\* Enactment.make_selection
make_selection(n, selection, start, end) ==
    IF selection.kind = "bool" /\ ~selection.value THEN Ok(<<>>)
    ELSE IF selection.kind = "bool" THEN Ok(make_selection_of_all_text(n))
    ELSE IF selection.kind = "set"
    THEN make_selection_of_set(n, Ok(selection.selectors), start, end)
    ELSE make_selection_of_set(n, convert_selection_to_set(n, selection), start, end)

\* ------------------------------------------------------------- propagator
RECURSIVE without_nesting_loop_unpadded(_, _, _)
\* a loop whose residual range starts at the content length
without_nesting_loop_unpadded(n, selections, self_selection) ==
    IF selections # <<>> /\ Head(selections).start < Len(n.content)
    THEN LET current == Head(selections)
             rest == Tail(selections)
         IN  IF current.end < Len(n.content)
             THEN without_nesting_loop_unpadded(n, rest, Append(self_selection, current))
             ELSE [self_selection |-> Append(self_selection, Sel(current.start, Len(n.content))),
                   selections |-> IF current.end > Len(n.content)
                                  THEN <<Sel(Len(n.content), current.end)>> \o rest
                                  ELSE rest]
    ELSE [self_selection |-> self_selection, selections |-> selections]

RECURSIVE without_nesting_loop(_, _, _)
\* the while loop of select_from_text_positions_without_nesting
without_nesting_loop(n, selections, self_selection) ==
    IF selections # <<>> /\ Head(selections).start < Len(n.content)
    THEN LET current == Head(selections)
             rest == Tail(selections)
         IN  IF current.end < Len(n.content)
             THEN without_nesting_loop(n, rest, Append(self_selection, current))
             ELSE without_nesting_loop(
                      n,
                      IF current.end > padded_length(n)
                      THEN <<Sel(padded_length(n), current.end)>> \o rest
                      ELSE rest,
                      Append(self_selection, Sel(current.start, Len(n.content))))
    ELSE [self_selection |-> self_selection, selections |-> selections]

\* the end of select_from_text_positions_without_nesting, after its loop
without_nesting_result(n, done) ==
    [node |-> [n EXCEPT !.selection = AddMargin(SortByStart(done.self_selection), n.content, 4)],
     unused |-> SortByStart(done.selections)]

\* Enactment.select_from_text_positions_without_nesting: the node with its new
\* selection, and the unused selectors
select_from_text_positions_without_nesting(n, selections) ==
    without_nesting_result(n, without_nesting_loop(n, selections, <<>>))

RECURSIVE select_from_text_positions(_, _)
RECURSIVE select_in_children(_, _)

PropagatedChildren(first, others) ==
    [children |-> <<first.node>> \o others.children, unused |-> others.unused]

SelectInSiblings(first, siblings) ==
    PropagatedChildren(first, select_in_children(siblings, first.unused))

\* the loop over nested_children of select_from_text_positions
select_in_children(children, selections) ==
    IF children = <<>> THEN [children |-> <<>>, unused |-> selections]
    ELSE SelectInSiblings(select_from_text_positions(Head(children), selections),
                          Tail(children))

PropagatedNode(here, below) ==
    [node |-> [here.node EXCEPT !.children = below.children], unused |-> below.unused]

SelectBelow(n, here) ==
    PropagatedNode(here, select_in_children(n.children,
                                            SetOffset(here.unused, 0 - padded_length(n))))

\* EnactmentPassage.select_from_text_positions
select_from_text_positions(n, selection) ==
    SelectBelow(n, select_from_text_positions_without_nesting(n, selection))

RECURSIVE node_text_sequence(_, _)
RECURSIVE children_text_sequence(_, _)

children_text_sequence(children, include_nones) ==
    IF children = <<>> THEN <<>>
    ELSE SequenceAdd(node_text_sequence(Head(children), include_nones),
                     children_text_sequence(Tail(children), include_nones))

\* the rendering of a node's own selection followed by its children's
node_text_sequence(n, include_nones) ==
    SequenceAdd(AsTextSequence(n.selection, n.content, include_nones),
                children_text_sequence(n.children, include_nones))

\* ------------------------------------------------------------ comparisons
\* an operand of implies, means and >: an Enactment or an EnactmentPassage
AsEnactment(n) == [class |-> "Enactment", obj |-> n]

AsPassage(p) == [class |-> "EnactmentPassage", obj |-> p]

\* Enactment.text_sequence
enactment_text_sequence(n, include_nones) ==
    AsTextSequence(make_selection(n, SelBool(TRUE), 0, NoEnd).set, text(n), include_nones)

\* text_sequence leaving out the gaps whatever include_nones is
passage_text_sequence_without_nones(p, include_nones) ==
    AsTextSequence(p.selection, text(p), FALSE)

\* EnactmentPassage.text_sequence
passage_text_sequence(p, include_nones) ==
    AsTextSequence(p.selection, text(p), include_nones)

text_sequence(o, include_nones) ==
    IF o.class = "Enactment"
    THEN enactment_text_sequence(o.obj, include_nones)
    ELSE passage_text_sequence(o.obj, include_nones)

\* TextSequence > TextSequence
SequenceGt(a, b) == ~SequenceMeans(a, b) /\ SequenceGe(a, b)

\* implies comparing the sequences with > instead of >=
implies_strictly(self, other) ==
    SequenceGt(text_sequence(self, FALSE), text_sequence(other, FALSE))

\* Enactment.implies, EnactmentPassage.implies, and their __ge__
implies(self, other) ==
    LET self_selected_passages == text_sequence(self, FALSE)
        other_selected_passages == text_sequence(other, FALSE)
    IN  SequenceGe(self_selected_passages, other_selected_passages)

\* means rendering other without its gaps
means_without_nones(self, other) ==
    SequenceMeans(text_sequence(self, TRUE), text_sequence(other, FALSE))

\* Enactment.means, EnactmentPassage.means
means(self, other) ==
    LET self_selected_passages == text_sequence(self, TRUE)
        other_selected_passages == text_sequence(other, TRUE)
    IN  SequenceMeans(self_selected_passages, other_selected_passages)

\* __gt__ without its test of means
gt_without_means(self, other) == implies(self, other)

\* Enactment.__gt__, EnactmentPassage.__gt__
gt(self, other) == IF means(self, other) THEN FALSE ELSE implies(self, other)

\* ------------------------------------------------------------------ merge
StartsWith(a, b) == Len(b) <= Len(a) /\ SubSeq(a, 1, Len(b)) = b

RECURSIVE tree_selection_from(_, _, _)
RECURSIVE tree_selection_children(_, _, _)

TreeSelectionSiblings(first, siblings) ==
    tree_selection_children(siblings, first.set, first.length)

tree_selection_children(children, selector_set, tree_length) ==
    IF children = <<>> THEN [set |-> selector_set, length |-> tree_length]
    ELSE TreeSelectionSiblings(tree_selection_from(Head(children), selector_set, tree_length),
                               Tail(children))

\* EnactmentPassage._tree_selection
tree_selection_from(n, selector_set, tree_length) ==
    tree_selection_children(n.children,
                            SetUnion(selector_set, SetOffset(n.selection, tree_length)),
                            tree_length + padded_length(n))

\* EnactmentPassage.tree_selection
tree_selection(n) == tree_selection_from(n, <<>>, 0).set

\* EnactmentPassage.select_more_text_in_current_branch: the node after the
\* call, and the selectors it returns
select_more_text_in_current_branch(n, added_selection) ==
    select_from_text_positions(n, SetUnion(tree_selection(n), added_selection))

RECURSIVE incoming_positions(_, _)

JoinPositions(position, others) ==
    IF others.err # "none" THEN others ELSE Ok(position.set \o others.set)

IncomingPosition(position, quotes, t) ==
    IF position.err # "none" THEN position
    ELSE IF ~QuoteIsUniqueIn(Head(quotes), t) THEN Raise("ValueError")
    ELSE JoinPositions(position, incoming_positions(Tail(quotes), t))

\* the loop of select_more_text_from_changed_version over the quote selectors
incoming_positions(quotes, t) ==
    IF quotes = <<>> THEN Ok(<<>>)
    ELSE IncomingPosition(QuoteAsPosition(Head(quotes), t), quotes, t)

IncomingQuoteSelectors(selectors, t) ==
    [i \in DOMAIN selectors |-> AsQuoteSelector(selectors[i], t)]

SelectIncoming(n, incoming) ==
    IF incoming.err # "none" THEN [err |-> incoming.err, node |-> n]
    ELSE [err |-> "none",
          node |-> select_more_text_in_current_branch(n, SortByStart(incoming.set)).node]

\* EnactmentPassage.select_more_text_from_changed_version
select_more_text_from_changed_version(n, other) ==
    SelectIncoming(n, incoming_positions(
                          IncomingQuoteSelectors(tree_selection(other), text(other)),
                          text(n)))

RECURSIVE update_text_at_included_node(_, _)

\* the except ValueError of _update_text_at_included_node
UpdatedFromChangedVersion(changed) ==
    [found |-> TRUE, updated |-> changed.err = "none",
     err |-> IF changed.err = "ValueError" THEN "none" ELSE changed.err,
     node |-> changed.node]

UpdatedChild(n, i, below) == [below EXCEPT !.node = [n EXCEPT !.children[i] = below.node]]

UpdateChild(n, i, other) ==
    UpdatedChild(n, i, update_text_at_included_node(n.children[i], other))

UpdateFirstOf(n, matching, other) ==
    IF matching = {}
    THEN [found |-> FALSE, updated |-> FALSE, err |-> "none", node |-> n]
    ELSE UpdateChild(n, Min(matching), other)

\* EnactmentPassage._update_text_at_included_node: found_node,
\* updated_selection, the node after the call, and an error it lets through
update_text_at_included_node(n, other) ==
    IF n.node = other.node
    THEN IF text(n) = text(other)
         THEN [found |-> TRUE, updated |-> TRUE, err |-> "none",
               node |-> select_more_text_in_current_branch(n, other.selection).node]
         ELSE UpdatedFromChangedVersion(select_more_text_from_changed_version(n, other))
    ELSE UpdateFirstOf(n,
                       {i \in DOMAIN n.children : StartsWith(other.node, n.children[i].node)},
                       other)

CopyOrError(self, update) ==
    IF update.err # "none" THEN [err |-> update.err, same |-> FALSE, node |-> self]
    ELSE IF ~update.found \/ ~update.updated
    THEN [err |-> "ValueError", same |-> FALSE, node |-> self]
    ELSE [err |-> "none", same |-> FALSE, node |-> update.node]

\* EnactmentPassage._add_enactment_at_included_node: same is TRUE when it
\* returns self, otherwise node is the copy it returns
add_enactment_at_included_node(self, other) ==
    IF implies(AsPassage(self), AsPassage(other))
    THEN [err |-> "none", same |-> TRUE, node |-> self]
    ELSE CopyOrError(self, update_text_at_included_node(self, other))

\* ----------------------------------------------------------------- inputs
Contents == {<<>>, <<"a", "b">>, <<"c", " ", "d">>}

Leaves(path) == {Node(path, c, <<>>) : c \in Contents}

\* node trees, children all resolved: a leaf, a node with one or two leaves,
\* and a node whose only child has a child
Trees ==
    LET root == <<1>>
    IN  Leaves(root)
        \cup {Node(root, c, <<k>>) : c \in Contents, k \in Leaves(<<1, 1>>)}
        \cup {Node(root, c, <<k1, k2>>) :
                c \in Contents, k1 \in Leaves(<<1, 1>>), k2 \in Leaves(<<1, 2>>)}
        \cup {Node(root, c, <<Node(<<1, 1>>, c1, <<k>>)>>) :
                c \in Contents, c1 \in Contents, k \in Leaves(<<1, 1, 1>>)}

\* ascending, non-overlapping position sets of at most MaxRanges ranges in 0..MaxPos
PositionSets ==
    {set \in {FromRanges(S) : S \in SUBSET (0..(MaxPos - 1))} : Len(set) <= MaxRanges}

\* the machine's variables while a function is applied
Idle == /\ heap = <<>> /\ err = "none" /\ ret = 0 /\ last = Null /\ steps = 0

\* ------------------------------------------------- passages: the machine
T == <<"/", "t">>
T1 == <<"/", "t", "/", "1">>
T2 == <<"/", "t", "/", "2">>
U == <<"/", "u">>

\* the Enactment of passage a: text "a b c"
EnactmentA == Node(T, <<"a">>, <<Node(T1, <<"b", " ", "c">>, <<>>)>>)

\* the Enactments of passage b: the same provision, another version of it, its
\* child, another version of the child, a path outside a, and a path under a
\* that a has no node for
EnactmentsB ==
    {EnactmentA,
     Node(T, <<"a">>, <<Node(T1, <<"c", " ", "b">>, <<>>)>>),
     Node(T1, <<"b", " ", "c">>, <<>>),
     Node(T1, <<"c">>, <<>>),
     Node(U, <<"a">>, <<>>),
     Node(T2, <<"b">>, <<>>)}

\* selection arguments for a text of five characters: booleans, position
\* selectors inside the text, up to its end, one and two characters past its
\* end, and two overlapping selectors in descending order, as a list and as a
\* TextPositionSet
InputSelections ==
    {SelBool(TRUE),
     SelPositions(<<Sel(0, 1)>>), SelPositions(<<Sel(2, 3)>>), SelPositions(<<Sel(4, 6)>>),
     SelPositions(<<Sel(6, 7)>>), SelPositions(<<Sel(7, 8)>>),
     SelPositions(<<Sel(3, 5), Sel(2, 4)>>), SelSet(<<Sel(3, 5), Sel(2, 4)>>)}

InitialSelections ==
    {SelBool(TRUE), SelBool(FALSE), SelPositions(<<Sel(0, 1)>>), SelPositions(<<Sel(2, 3)>>)}

\* Enactment.select: the passage it returns, every node's selection empty but
\* the root's
select(n, selection, start, end) ==
    [n EXCEPT !.selection = make_selection(n, selection, start, end).set]

Op(name, target, other, arg, start, end) ==
    [op |-> name, target |-> target, other |-> other, arg |-> arg,
     start |-> start, end |-> end]

\* a = EnactmentA.select(sa) at reference 1, b = e.select(sb) at reference 2
Init ==
    /\ \E sa \in InitialSelections, sb \in InitialSelections, e \in EnactmentsB :
         /\ make_selection(e, sb, 0, NoEnd).err = "none"
         /\ heap = <<select(EnactmentA, sa, 0, NoEnd), select(e, sb, 0, NoEnd)>>
    /\ err = "none"
    /\ ret = 0
    /\ last = Op("init", 0, 0, SelBool(FALSE), 0, NoEnd)
    /\ steps = 0
    /\ input = Null
    /\ output = Null

\* the passages operations are run on: a and the results of merges
Targets == DOMAIN heap \ {2}

Step(op) ==
    /\ steps < MaxSteps
    /\ steps' = steps + 1
    /\ last' = op
    /\ UNCHANGED <<input, output>>

Selected(t, selection_set) ==
    /\ err' = selection_set.err
    /\ ret' = 0
    /\ heap' = IF selection_set.err = "none"
               THEN [heap EXCEPT ![t].selection = selection_set.set]
               ELSE heap

\* EnactmentPassage.select
Select(t, selection, start, end) ==
    /\ Step(Op("select", t, 0, selection, start, end))
    /\ Selected(t, make_selection(heap[t], selection, start, end))

\* EnactmentPassage.select_all
SelectAll(t) ==
    /\ Step(Op("select_all", t, 0, SelBool(TRUE), 0, NoEnd))
    /\ err' = "none"
    /\ ret' = 0
    /\ heap' = [heap EXCEPT ![t].selection = <<Sel(0, Len(text(heap[t])))>>]

\* select_more keeping the selectors of both sets side by side, without the
\* union of self.selection += selection and without add_margin
select_more_without_union(p, converted) ==
    IF converted.err # "none" THEN [err |-> converted.err, set |-> p.selection]
    ELSE [err |-> IF raise_error_for_extra_selector(p, converted.set)
                  THEN "ValueError" ELSE "none",
          set |-> SortByStart(p.selection \o converted.set)]

\* a select_more that replaces the selection with the one it is given
select_more_replacing(p, converted) ==
    IF converted.err # "none" THEN [err |-> converted.err, set |-> p.selection]
    ELSE [err |-> IF raise_error_for_extra_selector(p, converted.set)
                  THEN "ValueError" ELSE "none",
          set |-> AddMargin(converted.set, text(p), 4)]

\* select_more on a selection converted to a position set: the selection is
\* replaced before raise_error_for_extra_selector is called
select_more_of_set(p, converted) ==
    IF converted.err # "none" THEN [err |-> converted.err, set |-> p.selection]
    ELSE [err |-> IF raise_error_for_extra_selector(p, converted.set)
                  THEN "ValueError" ELSE "none",
          set |-> AddMargin(SetUnion(p.selection, converted.set), text(p), 4)]

\* the selection select_more leaves, with the error it raises
select_more(p, selection) ==
    IF selection.kind = "set" THEN select_more_of_set(p, Ok(selection.selectors))
    ELSE select_more_of_set(p, convert_selection_to_set(p, selection))

SelectedMore(t, more) ==
    /\ err' = more.err
    /\ ret' = 0
    /\ heap' = [heap EXCEPT ![t].selection = more.set]

\* EnactmentPassage.select_more
SelectMore(t, selection) ==
    /\ Step(Op("select_more", t, 0, selection, 0, NoEnd))
    /\ SelectedMore(t, select_more(heap[t], selection))

\* EnactmentPassage.limit_selection
LimitSelection(t, start, end) ==
    /\ Step(Op("limit_selection", t, 0, SelBool(FALSE), start, end))
    /\ err' = "none"
    /\ ret' = 0
    /\ heap' = [heap EXCEPT ![t].selection =
                    limit_selection(heap[t], heap[t].selection, start, end)]

RECURSIVE select_none(_)
\* EnactmentPassage.select_none
select_none(n) ==
    [n EXCEPT !.selection = <<>>,
              !.children = [i \in DOMAIN n.children |-> select_none(n.children[i])]]

SelectNone(t) ==
    /\ Step(Op("select_none", t, 0, SelBool(FALSE), 0, NoEnd))
    /\ err' = "none"
    /\ ret' = 0
    /\ heap' = [heap EXCEPT ![t] = select_none(heap[t])]

AddedSelection(t, more) ==
    /\ err' = more.err
    /\ IF more.err = "none"
       THEN /\ heap' = Append(heap, [heap[t] EXCEPT !.selection = more.set])
            /\ ret' = Len(heap) + 1
       ELSE /\ heap' = heap
            /\ ret' = 0

\* EnactmentPassage.__add__ on a selector: a copy of self with more selected
AddSelection(t, selection) ==
    /\ Step(Op("add_selection", t, 0, selection, 0, NoEnd))
    /\ AddedSelection(t, select_more(heap[t], selection))

Returned(at, sum) == [at |-> at, err |-> sum.err, same |-> sum.same, node |-> sum.node]

\* what self + other gives on two passages: an error, the passage at
\* reference at itself (same), or a new passage (node)
add(l, r) ==
    IF StartsWith(heap[r].node, heap[l].node)
    THEN Returned(l, add_enactment_at_included_node(heap[l], heap[r]))
    ELSE IF StartsWith(heap[l].node, heap[r].node)
    THEN Returned(r, add_enactment_at_included_node(heap[r], heap[l]))
    ELSE [at |-> 0, err |-> "ValueError", same |-> FALSE, node |-> heap[l]]

\* a merge that updates the passage it was called on instead of a deepcopy
AddedInPlace(sum) ==
    /\ err' = sum.err
    /\ IF sum.err # "none" THEN heap' = heap /\ ret' = 0
       ELSE heap' = [heap EXCEPT ![sum.at] = sum.node] /\ ret' = sum.at

\* the end of __add__ on two passages: the error raised, self returned, or the
\* updated deepcopy returned as a new object
Added(sum) ==
    /\ err' = sum.err
    /\ IF sum.err # "none" THEN heap' = heap /\ ret' = 0
       ELSE IF sum.same THEN heap' = heap /\ ret' = sum.at
       ELSE heap' = Append(heap, sum.node) /\ ret' = Len(heap) + 1

\* EnactmentPassage.__add__ on two passages
Add(l, r) ==
    /\ Step(Op("add", l, r, SelBool(FALSE), 0, NoEnd))
    /\ Added(add(l, r))

LimitArguments == {<<0, NoEnd>>, <<1, NoEnd>>, <<0, 3>>}

Next ==
    \/ \E t \in Targets, selection \in InputSelections \cup {SelBool(FALSE)} :
         Select(t, selection, 0, NoEnd)
    \/ \E t \in Targets, limit \in LimitArguments :
         Select(t, SelPositions(<<Sel(0, 1), Sel(2, 5)>>), limit[1], limit[2])
    \/ \E t \in Targets : SelectAll(t)
    \/ \E t \in Targets, selection \in InputSelections : SelectMore(t, selection)
    \/ \E t \in Targets, limit \in LimitArguments : LimitSelection(t, limit[1], limit[2])
    \/ \E t \in Targets : SelectNone(t)
    \/ \E t \in Targets, selection \in InputSelections : AddSelection(t, selection)
    \/ \E l \in DOMAIN heap, r \in DOMAIN heap : l # r /\ Add(l, r)

Spec == Init /\ [][Next]_vars

\* ------------------------------------------------ properties of the machine
RECURSIVE Nodes(_)
\* the nodes of a tree
Nodes(n) == {n} \cup UNION {Nodes(n.children[i]) : i \in DOMAIN n.children}

Ascending(set) == \A i \in DOMAIN set, j \in DOMAIN set : i < j => set[i].end <= set[j].start

WithinText(p) ==
    \A s \in Range(p.selection) : 0 <= s.start /\ s.end <= Len(text(p))

IsPositionArgument(selection) == selection.kind \in {"positions", "set"}

\* C2: evaluating a + b, whether it returns or raises, leaves the node tree and
\* the selection of a and of b as they were before the call.
C2_AddLeavesOperandsUnchanged ==
    [][last'.op = "add" =>
          /\ heap'[last'.target] = heap[last'.target]
          /\ heap'[last'.other] = heap[last'.other]]_vars

\* a merge that returned a new passage differing from both of its operands
C2_Witness ==
    /\ last.op = "add" /\ err = "none"
    /\ ret = Len(heap) /\ ret \notin {last.target, last.other}
    /\ heap[ret].selection # heap[last.target].selection
    /\ heap[ret] # heap[last.other]

\* C3: every successful merge a + b returns a passage that is neither a nor b,
\* also when a already implies b.
C3_MergeReturnsNewPassage ==
    (last.op = "add" /\ err = "none") => ret \notin {last.target, last.other}

\* C4: after any sequence of select, select_all, select_more, limit_selection
\* and merge operations the ranges of every selection of a passage are in
\* ascending order and no two of them overlap.
C4_SelectionAscending ==
    \A i \in DOMAIN heap : \A n \in Nodes(heap[i]) : Ascending(n.selection)

\* select_more was given two overlapping selectors in descending order and
\* left one range
C4_Witness ==
    /\ last.op = "select_more" /\ err = "none"
    /\ last.arg.selectors = <<Sel(3, 5), Sel(2, 4)>>
    /\ heap[last.target].selection = <<Sel(2, 5)>>

\* C5: after a select, select_all, select_more, limit_selection or merge on a
\* passage, also one that reported an error, every range of the passage's
\* selection lies within [0, length of its flattened text].
C5_SelectionWithinText ==
    /\ last.op \in {"select", "select_all", "select_more", "limit_selection"}
          => WithinText(heap[last.target])
    /\ (last.op = "add" /\ err = "none") => WithinText(heap[ret])

\* C6: select and select_more given a position range that starts after the
\* end of the passage's text report an error.
C6_StartAfterTextIsReported ==
    (/\ last.op \in {"select", "select_more"}
     /\ IsPositionArgument(last.arg)
     /\ \E s \in Range(last.arg.selectors) : s.start > Len(text(heap[last.target])))
        => err # "none"

\* a tree has a node at this citation path
HasNode(n, path) == \E m \in Nodes(n) : m.node = path

\* neither path is a prefix of the other, or the deeper path names no node of
\* the shallower passage's tree
StructuralMismatch(a, b) ==
    \/ ~StartsWith(a.node, b.node) /\ ~StartsWith(b.node, a.node)
    \/ StartsWith(b.node, a.node) /\ ~HasNode(a, b.node)
    \/ StartsWith(a.node, b.node) /\ ~HasNode(b, a.node)

\* the position set select_more adds for the selection it is given
AsPositionSet(p, selection) ==
    IF selection.kind = "set" THEN Ok(selection.selectors)
    ELSE convert_selection_to_set(p, selection)

SetWithinText(p, converted) ==
    /\ converted.err = "none"
    /\ \A s \in Range(converted.set) : 0 <= s.start /\ s.end <= Len(text(p))

\* C18: select_more is additive: for a selection within the text, after
\* select_more every position that was selected before the call is still
\* selected and every position of the selection is selected.
C18_SelectMoreIsAdditive ==
    [][(/\ last'.op = "select_more"
        /\ SetWithinText(heap[last'.target], AsPositionSet(heap[last'.target], last'.arg)))
          => /\ Covered(heap[last'.target].selection)
                    \subseteq Covered(heap'[last'.target].selection)
             /\ Covered(AsPositionSet(heap[last'.target], last'.arg).set)
                    \subseteq Covered(heap'[last'.target].selection)]_vars

\* select_more added the range [2, 3) to a passage whose selection started at
\* 0 and ended before it; the space between the two was added as margin
C18_Witness ==
    /\ last.op = "select_more" /\ err = "none"
    /\ last.arg.selectors = <<Sel(2, 3)>>
    /\ heap[last.target].selection = <<Sel(0, 3)>>

RECURSIVE residual_at_included_node(_, _)

ResidualOfIncoming(n, incoming) ==
    IF incoming.err # "none" THEN <<>>
    ELSE select_more_text_in_current_branch(n, SortByStart(incoming.set)).unused

\* the selectors select_more_text_in_current_branch returns to
\* _update_text_at_included_node, at the node it finds for other
residual_at_included_node(n, other) ==
    IF n.node = other.node
    THEN IF text(n) = text(other)
         THEN select_more_text_in_current_branch(n, other.selection).unused
         ELSE ResidualOfIncoming(n, incoming_positions(
                  IncomingQuoteSelectors(tree_selection(other), text(other)), text(n)))
    ELSE LET matching == {i \in DOMAIN n.children : StartsWith(other.node, n.children[i].node)}
         IN  IF matching = {} THEN <<>>
             ELSE residual_at_included_node(n.children[Min(matching)], other)

\* the residual of _add_enactment_at_included_node, empty when it returns self
ResidualOfAdd(self, other) ==
    IF implies(AsPassage(self), AsPassage(other)) THEN <<>>
    ELSE residual_at_included_node(self, other)

\* the residual of l + r, by the operand __add__ calls
\* _add_enactment_at_included_node on
AddResidual(l, r) ==
    IF StartsWith(heap[r].node, heap[l].node) THEN ResidualOfAdd(heap[l], heap[r])
    ELSE IF StartsWith(heap[l].node, heap[r].node) THEN ResidualOfAdd(heap[r], heap[l])
    ELSE <<>>

\* C21: whenever adding ranges through the propagator during a merge leaves a
\* non-empty residual, the merge reports an error instead of returning a
\* passage that omits those ranges.
C21_ResidualIsReported ==
    (last.op = "add" /\ AddResidual(last.target, last.other) # <<>>) => err # "none"

RECURSIVE located_node(_, _)
\* the node _update_text_at_included_node finds for other in the tree of n,
\* Null if it finds none
located_node(n, other) ==
    IF n.node = other.node THEN n
    ELSE LET matching == {i \in DOMAIN n.children : StartsWith(other.node, n.children[i].node)}
         IN  IF matching = {} THEN Null
             ELSE located_node(n.children[Min(matching)], other)

\* the node located for other has the text of other
LocatedWithSameText(self, other) ==
    /\ located_node(self, other) # Null
    /\ text(located_node(self, other)) = text(other)

\* l + r finds, for the operand with the deeper path, a node with its text
SameTextMerge(l, r) ==
    \/ StartsWith(heap[r].node, heap[l].node) /\ LocatedWithSameText(heap[l], heap[r])
    \/ /\ ~StartsWith(heap[r].node, heap[l].node)
       /\ StartsWith(heap[l].node, heap[r].node)
       /\ LocatedWithSameText(heap[r], heap[l])

\* C22: when the node located for b inside a's tree has text identical to
\* b's, the result of a + b implies a and implies b.
C22_SameTextMergeImpliesBoth ==
    (last.op = "add" /\ err = "none" /\ SameTextMerge(last.target, last.other))
        => /\ implies(AsPassage(heap[ret]), AsPassage(heap[last.target]))
           /\ implies(AsPassage(heap[ret]), AsPassage(heap[last.other]))

\* C24: if select_more reports an error because a supplied range begins
\* beyond the end of the text, the passage's selection after the call is the
\* same as before the call.
C24_FailedSelectMoreChangesNothing ==
    [][(/\ last'.op = "select_more"
        /\ err' # "none"
        /\ IsPositionArgument(last'.arg)
        /\ \E s \in Range(last'.arg.selectors) : s.start > Len(text(heap[last'.target])))
          => heap'[last'.target].selection = heap[last'.target].selection]_vars

\* C14: a + b reports an error and returns no passage whenever neither
\* citation path is a prefix of the other and whenever the deeper path names
\* no node of the shallower passage's tree, whatever the selections are.
C14_MismatchIsReported ==
    (last.op = "add" /\ StructuralMismatch(heap[last.target], heap[last.other]))
        => (err # "none" /\ ret = 0)

\* ------------------------------------------- the propagator, as a function
InitPropagate ==
    /\ Idle
    /\ input \in [tree : Trees, selection : PositionSets]
    /\ output = Null

Propagate ==
    /\ output = Null
    /\ output' = select_from_text_positions(input.tree, input.selection)
    /\ UNCHANGED <<heap, err, ret, last, steps, input>>

NextPropagate == Propagate

SpecPropagate == InitPropagate /\ [][NextPropagate]_vars

\* the rendering of the same ranges applied to the flattened text
FlatSequence == AsTextSequence(input.selection, text(input.tree), TRUE)

InText == \A s \in Range(input.selection) : s.end <= Len(text(input.tree))

\* C1: propagating a position set given in flattened-subtree coordinates and
\* rendering the nodes' selections in document order gives the sequence that
\* the same ranges give on the flattened text.
C1_FlatteningEquivalence ==
    (output # Null /\ InText) => node_text_sequence(output.node, TRUE) = FlatSequence

\* ------------------------------------------ comparisons, as functions
\* the Enactments compared: texts "a.b", "b", "a b." and the empty text
CompareNodes ==
    {Node(T, <<"a", ".", "b">>, <<>>),
     Node(T, <<"b">>, <<>>),
     Node(T, <<"a">>, <<Node(T1, <<"b", ".">>, <<>>)>>),
     Node(U, <<>>, <<>>)}

\* the selections within a text, of at most MaxRanges ranges
SelectionsWithin(t) ==
    {set \in {FromRanges(S) : S \in SUBSET (0..(Len(t) - 1))} : Len(set) <= MaxRanges}

\* the operands: every Enactment, and every passage of it
CompareOperands ==
    {AsEnactment(n) : n \in CompareNodes}
    \cup {AsPassage([n EXCEPT !.selection = set]) :
            n \in CompareNodes, set \in UNION {SelectionsWithin(text(m)) : m \in CompareNodes}}

InitCompare ==
    /\ Idle
    /\ input \in [x : CompareOperands, y : CompareOperands, z : CompareOperands]
    /\ \A o \in {input.x, input.y, input.z} :
         o.class = "EnactmentPassage" => WithinText(o.obj)
    /\ output = Null

Compare ==
    /\ output = Null
    /\ output' = [implies_xx |-> implies(input.x, input.x),
                  implies_xy |-> implies(input.x, input.y),
                  implies_yz |-> implies(input.y, input.z),
                  implies_xz |-> implies(input.x, input.z),
                  means_xx |-> means(input.x, input.x),
                  means_xy |-> means(input.x, input.y),
                  gt_xy |-> gt(input.x, input.y)]
    /\ UNCHANGED <<heap, err, ret, last, steps, input>>

NextCompare == Compare

SpecCompare == InitCompare /\ [][NextCompare]_vars

\* C7: implies is a preorder: implies(x, x) holds, and implies(x, y) with
\* implies(y, z) gives implies(x, z).
C7_ImpliesIsPreorder ==
    output # Null =>
        /\ output.implies_xx
        /\ (output.implies_xy /\ output.implies_yz) => output.implies_xz

\* three different selections, each implying the next, none empty
C7_Witness ==
    /\ output # Null
    /\ output.implies_xy /\ output.implies_yz /\ output.implies_xz
    /\ input.x # input.y /\ input.y # input.z /\ input.x # input.z
    /\ text_sequence(input.z, FALSE) # <<>>
    /\ ~implies(input.z, input.x)

\* C8: means(x, x) is true for every selection x of every node.
C8_MeansIsReflexive == output # Null => output.means_xx

\* means(x, x) was computed for a passage with two selected ranges and text
\* between them
C8_Witness ==
    /\ output # Null /\ output.means_xx
    /\ input.x.class = "EnactmentPassage"
    /\ Len(input.x.obj.selection) = 2

\* C9: x > y holds exactly when implies(x, y) holds and means(x, y) does not.
C9_GtIsImpliesAndNotMeans ==
    output # Null => (output.gt_xy <=> (output.implies_xy /\ ~output.means_xy))

\* x implies y and means y, so x > y is false
C9_Witness ==
    /\ output # Null
    /\ output.implies_xy /\ output.means_xy /\ ~output.gt_xy
    /\ input.x # input.y

\* ------------------------------------------ quote resolution, as a function
\* a node tree, and a substring of its text by where it begins and ends
InitQuote ==
    /\ Idle
    /\ input \in [tree : Trees, start : 0..MaxPos, end : 1..MaxPos]
    /\ input.start < input.end
    /\ input.end <= Len(text(input.tree))
    /\ output = Null

\* T[start:end] of the input
Substring == Slice(text(input.tree), input.start, input.end)

OccursOnce ==
    Cardinality({i \in 0..Len(text(input.tree)) :
                    Slice(text(input.tree), i, i + Len(Substring)) = Substring}) = 1

\* Enactment.select with the quote selector {exact: s}, and with the position
\* selector of the substring
ResolveQuote ==
    /\ output = Null
    /\ output' = [quote |-> make_selection(input.tree, SelQuote(<<>>, Substring, <<>>),
                                           0, NoEnd),
                  position |-> make_selection(input.tree,
                                              SelPositions(<<Sel(input.start, input.end)>>),
                                              0, NoEnd)]
    /\ UNCHANGED <<heap, err, ret, last, steps, input>>

NextQuote == ResolveQuote

SpecQuote == InitQuote /\ [][NextQuote]_vars

\* C10: for a substring s that occurs exactly once in the text T, selecting
\* with the quote selector {exact: s} gives a single range r with
\* T[r.start:r.end] = s, the range the position selector of that occurrence
\* gives.
C10_QuoteRoundTrip ==
    (output # Null /\ OccursOnce) =>
        /\ output.quote.err = "none"
        /\ Len(output.quote.set) = 1
        /\ Slice(text(input.tree), output.quote.set[1].start, output.quote.set[1].end)
              = Substring
        /\ output.quote = output.position

\* a quote resolved in the text of a child, past the node's own content
C10_Witness ==
    /\ output # Null /\ OccursOnce
    /\ output.quote.err = "none"
    /\ input.start > Len(input.tree.content)
    /\ input.tree.content # <<>>

\* ------------------------------------------ boolean selectors, as functions
InitBoolean ==
    /\ Idle
    /\ input \in [tree : Trees, value : BOOLEAN]
    /\ output = Null

\* the two entry points given True or False: make_selection (select) and
\* convert_selection_to_set (select_more, get_string)
ResolveBoolean ==
    /\ output = Null
    /\ output' = [made |-> make_selection(input.tree, SelBool(input.value), 0, NoEnd),
                  converted |-> convert_selection_to_set(input.tree, SelBool(input.value))]
    /\ UNCHANGED <<heap, err, ret, last, steps, input>>

NextBoolean == ResolveBoolean

SpecBoolean == InitBoolean /\ [][NextBoolean]_vars

\* the range [0, length(text)) of a node's full text, no range for an empty text
FullRange(n) == IF text(n) = <<>> THEN <<>> ELSE <<Sel(0, Len(text(n)))>>

\* C11: make_selection and convert_selection_to_set both resolve True to the
\* single range [0, length(text)) of the node's full text and False to the
\* empty set.
C11_BooleanSelectors ==
    output # Null =>
        /\ output.made = Ok(IF input.value THEN FullRange(input.tree) ELSE <<>>)
        /\ output.converted = output.made

\* ------------------------------------------------ full text, as a function
InitText ==
    /\ Idle
    /\ input \in [tree : Trees]
    /\ output = Null

\* Enactment.text of the input
ReadText ==
    /\ output = Null
    /\ output' = [text |-> text(input.tree)]
    /\ UNCHANGED <<heap, err, ret, last, steps, input>>

NextText == ReadText

SpecText == InitText /\ [][NextText]_vars

RECURSIVE FullText(_)
\* a node's content followed by the full text of each child that has text, in
\* declared order, joined by single spaces
FullText(n) ==
    LET of_children == [i \in DOMAIN n.children |-> FullText(n.children[i])]
        with_text == SelectSeq(of_children, LAMBDA t : t # <<>>)
    IN  Strip(Join(<<n.content>> \o with_text), {SP})

\* C12: a node's full text is its own content followed by the full text of
\* each child, descendants included, in declared order, joined by single
\* spaces.
C12_FullTextIsRecursive == output # Null => output.text = FullText(input.tree)

\* --------------------------------------------- selected text, as a function
MaxContext == 2

\* the trees rendered: those with at most one child
RenderTrees == {tree \in Trees : Len(tree.children) <= 1}

\* quote selectors cut from a text: exact is t[s:e], prefix and suffix are at
\* most MaxContext characters before and after it
QuotesFrom(t) ==
    {SelQuote(Slice(t, s - p, s), Slice(t, s, e), Slice(t, e, e + x)) :
        <<s, e, p, x>> \in {w \in (0..Len(t)) \X (1..Len(t)) \X (0..MaxContext) \X (0..MaxContext) :
                              w[1] < w[2] /\ w[3] <= w[1] /\ w[2] + w[4] <= Len(t)}}

\* position sets within a text
SetsWithin(t) ==
    {SelSet(set) : set \in {x \in PositionSets : \A s \in Range(x) : s.end <= Len(t)}}

InitRender ==
    /\ Idle
    /\ \E tree \in RenderTrees :
         input \in [tree : {tree}, selection : QuotesFrom(text(tree)) \cup SetsWithin(text(tree))]
    /\ output = Null

\* the passage Enactment.select made, rendered by text_sequence
Rendered(tree, made) ==
    [err |-> made.err,
     selection |-> made.set,
     sequence |-> IF made.err = "none"
                  THEN passage_text_sequence([tree EXCEPT !.selection = made.set], TRUE)
                  ELSE <<>>]

\* Enactment.select, then EnactmentPassage.selected_text
Render ==
    /\ output = Null
    /\ output' = Rendered(input.tree, make_selection(input.tree, input.selection, 0, NoEnd))
    /\ UNCHANGED <<heap, err, ret, last, steps, input>>

NextRender == Render

SpecRender == InitRender /\ [][NextRender]_vars

\* the fragments of a sequence, without its gaps
Fragments(sequence) == SelectSeq(sequence, LAMBDA p : ~p.gap)

Merged(receiver, sum) ==
    [err |-> sum.err, same |-> sum.same, receiver |-> receiver, node |-> sum.node]

add_passages(self, other) ==
    IF StartsWith(other.node, self.node)
    THEN Merged("self", add_enactment_at_included_node(self, other))
    ELSE IF StartsWith(self.node, other.node)
    THEN Merged("other", add_enactment_at_included_node(other, self))
    ELSE [err |-> "ValueError", same |-> FALSE, receiver |-> "none", node |-> self]

\* versions of the text at one citation path: "abab", "ba", "a." and, with a
\* child, "a b a"
VersionNodes ==
    {Node(T, <<"a", "b", "a", "b">>, <<>>),
     Node(T, <<"b", "a">>, <<>>),
     Node(T, <<"a", ".">>, <<>>),
     Node(T, <<"a">>, <<Node(T1, <<"b", " ", "a">>, <<>>)>>)}

\* the passages Enactment.select makes of a version
VersionPassages ==
    UNION {{[n EXCEPT !.selection = set] : set \in SelectionsWithin(text(n))} :
             n \in VersionNodes}

InitMerge ==
    /\ Idle
    /\ input \in [self : VersionPassages, other : VersionPassages]
    /\ text(input.self) # text(input.other)
    /\ output = Null

\* self + other
Merge ==
    /\ output = Null
    /\ output' = add_passages(input.self, input.other)
    /\ UNCHANGED <<heap, err, ret, last, steps, input>>

NextMerge == Merge

SpecMerge == InitMerge /\ [][NextMerge]_vars

\* the selected ranges of a passage, as quoted text
QuotedTexts(p) == {Slice(text(p), s.start, s.end) : s \in Range(tree_selection(p))}

\* where a quoted text occurs in a text
Occurrences(quoted, t) ==
    {i \in 0..Len(t) : Len(quoted) > 0 /\ Slice(t, i, i + Len(quoted)) = quoted}

\* the passage a merge returned
Sum(self, other, sum) ==
    IF ~sum.same THEN sum.node ELSE IF sum.receiver = "self" THEN self ELSE other

\* every character of an occurrence is selected in p, the spaces that join two
\* nodes aside
SelectedAt(p, i, quoted) ==
    \A k \in i..(i + Len(quoted) - 1) :
        k \in Covered(tree_selection(p)) \/ text(p)[k + 1] = SP

\* C15: with the same citation path and different text, self + other succeeds
\* and selects the quoted text if every selected range of other, as quoted
\* text, occurs exactly once in self's text; if one of them is absent or occurs
\* more than once the merge reports an error.
C15_ChangedVersionMerge ==
    output # Null =>
        IF \A quoted \in QuotedTexts(input.other) :
               Cardinality(Occurrences(quoted, text(input.self))) = 1
        THEN /\ output.err = "none"
             /\ \A quoted \in QuotedTexts(input.other) :
                    \A i \in Occurrences(quoted, text(input.self)) :
                        SelectedAt(Sum(input.self, input.other, output), i, quoted)
        ELSE output.err # "none"

\* ------------------------------------------------- consolidate_enactments
MaxList == 3

\* the passages consolidated: two versions of /t with several selections, a
\* passage of its child /t/1, and a passage of /u
ConsolidatePool ==
    {[Node(T, <<"a", "b", "a", "b">>, <<>>) EXCEPT !.selection = <<>>],
     [Node(T, <<"a", "b", "a", "b">>, <<>>) EXCEPT !.selection = <<Sel(0, 2)>>],
     [Node(T, <<"b", "a">>, <<>>) EXCEPT !.selection = <<Sel(0, 1)>>],
     [Node(T, <<"b", "a">>, <<>>) EXCEPT !.selection = <<Sel(1, 2)>>],
     [Node(T, <<"b", "a">>, <<>>) EXCEPT !.selection = <<Sel(0, 2)>>],
     [Node(T, <<"a">>, <<Node(T1, <<"b", " ", "a">>, <<>>)>>) EXCEPT !.selection = <<Sel(0, 1)>>],
     [Node(T1, <<"b", " ", "a">>, <<>>) EXCEPT !.selection = <<Sel(0, 1)>>],
     [Node(U, <<"a">>, <<>>) EXCEPT !.selection = <<Sel(0, 1)>>]}

\* the lists of at most MaxList passages
ConsolidateInputs == UNION {[1..k -> ConsolidatePool] : k \in 0..MaxList}

\* output holds the function's locals: the list enactments, the list
\* consolidated, an error that left the function, and whether it returned
InitConsolidate ==
    /\ Idle
    /\ input \in ConsolidateInputs
    /\ output = [enactments |-> input, consolidated |-> <<>>,
                 err |-> "none", returned |-> FALSE]

\* list.remove(right) for the right at index i
RemoveAt(list, i) == SubSeq(list, 1, i - 1) \o SubSeq(list, i + 1, Len(list))

RECURSIVE for_right_in_enactments(_, _, _)

\* a pass of the for loop that appends combined and leaves right on the list
try_right_without_remove(left, enactments, i, combined) ==
    IF combined.err = "none"
    THEN [match_made |-> TRUE, err |-> "none",
          enactments |-> Append(enactments, Sum(left, enactments[i], combined))]
    ELSE IF combined.err = "ValueError"
    THEN for_right_in_enactments(left, enactments, i + 1)
    ELSE [match_made |-> FALSE, err |-> combined.err, enactments |-> enactments]

\* one pass of the for loop: combined, an error other than ValueError, or the
\* next right
try_right(left, enactments, i, combined) ==
    IF combined.err = "none"
    THEN [match_made |-> TRUE, err |-> "none",
          enactments |-> Append(RemoveAt(enactments, i),
                                Sum(left, enactments[i], combined))]
    ELSE IF combined.err = "ValueError"
    THEN for_right_in_enactments(left, enactments, i + 1)
    ELSE [match_made |-> FALSE, err |-> combined.err, enactments |-> enactments]

\* the for loop of consolidate_enactments, from index i
for_right_in_enactments(left, enactments, i) ==
    IF i > Len(enactments)
    THEN [match_made |-> FALSE, err |-> "none", enactments |-> enactments]
    ELSE try_right(left, enactments, i, add_passages(left, enactments[i]))

\* the end of a round of the while loop
after_for_loop(left, consolidated, found) ==
    [enactments |-> found.enactments,
     consolidated |-> IF found.match_made \/ found.err # "none" THEN consolidated
                      ELSE Append(consolidated, left),
     err |-> found.err, returned |-> FALSE]

\* a round of the while loop: left = enactments.pop(), then the for loop
consolidate_round(enactments, consolidated) ==
    after_for_loop(enactments[Len(enactments)], consolidated,
                   for_right_in_enactments(enactments[Len(enactments)],
                                           SubSeq(enactments, 1, Len(enactments) - 1), 1))

Running == output.err = "none" /\ ~output.returned

ConsolidateRound ==
    /\ Running
    /\ output.enactments # <<>>
    /\ output' = consolidate_round(output.enactments, output.consolidated)
    /\ UNCHANGED <<heap, err, ret, last, steps, input>>

ConsolidateReturn ==
    /\ Running
    /\ output.enactments = <<>>
    /\ output' = [output EXCEPT !.returned = TRUE]
    /\ UNCHANGED <<heap, err, ret, last, steps, input>>

NextConsolidate == ConsolidateRound \/ ConsolidateReturn

SpecConsolidate == InitConsolidate /\ [][NextConsolidate]_vars

\* the interpreter keeps running the function until it returns or raises:
\* WF_vars(NextConsolidate), with ENABLED <<NextConsolidate>>_vars written as
\* the state predicate Running that both actions have as their guard
FairConsolidate ==
    SpecConsolidate /\ ([]<>(~Running) \/ []<><<NextConsolidate>>_vars)

\* C16: in the list consolidate returns there are no two distinct elements x
\* and y for which x + y succeeds.
C16_ConsolidateIsFixedPoint ==
    output.returned =>
        \A i \in DOMAIN output.consolidated, j \in DOMAIN output.consolidated :
            i # j => add_passages(output.consolidated[i], output.consolidated[j]).err # "none"

\* C17: consolidate terminates: every round of its loop makes the list of
\* Enactments still to be processed shorter, and the function returns or
\* raises.
C17_ConsolidateTerminates ==
    /\ [][Len(output'.enactments) < Len(output.enactments) \/ output'.returned]_vars
    /\ <>(output.returned \/ output.err # "none")

\* consolidate returned after MaxList rounds of which one merged two passages
C17_Witness ==
    /\ output.returned
    /\ Len(input) = MaxList
    /\ Len(output.consolidated) = MaxList - 1

\* ------------------------------------- where the propagator puts positions
RECURSIVE Placed(_, _)
RECURSIVE PlacedChildren(_, _)
RECURSIVE PaddedTotal(_)
RECURSIVE PaddedTotalOf(_)

\* the sum of padded_length over the nodes of children
PaddedTotalOf(children) ==
    IF children = <<>> THEN 0
    ELSE PaddedTotal(Head(children)) + PaddedTotalOf(Tail(children))

\* the sum of padded_length over a node and the nodes below it: what
\* select_from_text_positions has subtracted from the selectors it returns
PaddedTotal(n) == padded_length(n) + PaddedTotalOf(n.children)

PlacedChildren(children, offset) ==
    IF children = <<>> THEN <<>>
    ELSE Placed(Head(children), offset)
             \o PlacedChildren(Tail(children), offset + PaddedTotal(Head(children)))

\* the nodes of a tree in document order, each with the offset its local
\* selection is relative to
Placed(n, offset) ==
    <<[selection |-> n.selection, offset |-> offset, length |-> Len(n.content),
       content |-> n.content]>>
        \o PlacedChildren(n.children, offset + padded_length(n))

\* the nodes whose local selection holds position p of the input
HoldersOf(p, placed) ==
    {k \in DOMAIN placed : (p - placed[k].offset) \in Covered(placed[k].selection)}

\* p is the join separator after a node that another node follows
OnSeparator(p, placed) ==
    \E k \in 1..(Len(placed) - 1) :
        placed[k].length > 0 /\ p = placed[k].offset + placed[k].length

\* p is in the returned selectors, which are relative to the end of the subtree
InResidual(p) == (p - PaddedTotal(input.tree)) \in Covered(output.unused)

NotLost(p, placed) ==
    HoldersOf(p, placed) # {} \/ OnSeparator(p, placed) \/ InResidual(p)

NotDuplicated(p, placed) ==
    /\ Cardinality(HoldersOf(p, placed)) <= 1
    /\ ~(HoldersOf(p, placed) # {} /\ InResidual(p))

ResidualBeyondText ==
    \A q \in Covered(output.unused) :
        q + PaddedTotal(input.tree) >= Len(text(input.tree))

\* C20: the propagator neither loses nor duplicates selected text: every
\* position of the input set is in exactly one node's local selection, on a
\* join separator between two nodes, or in the returned residual, and the
\* residual holds only positions beyond the end of the subtree's text.
C20_NothingLostOrDuplicated ==
    output # Null =>
        /\ \A p \in Covered(input.selection) :
               /\ NotLost(p, Placed(output.node, 0))
               /\ NotDuplicated(p, Placed(output.node, 0))
        /\ ResidualBeyondText

\* the content of the k-th node in document order is in the text at its offset
ContentAtOffset(t, placed, k) ==
    Slice(t, placed[k].offset, placed[k].offset + placed[k].length) = placed[k].content

\* C23: for every node of a tree whose children are all resolved, the sum of
\* the padded lengths of the nodes before it in document order is the
\* position where its content begins in the root's flattened text.
C23_OffsetsMatchText ==
    output # Null =>
        \A k \in DOMAIN Placed(input.tree, 0) :
            ContentAtOffset(output.text, Placed(input.tree, 0), k)

\* --------------------------- the propagator at one node, as a function
SplitNodes == {t \in Trees : Len(t.children) <= 1}

InitSplit ==
    /\ Idle
    /\ input \in [tree : SplitNodes, selection : PositionSets]
    /\ output = Null

Split ==
    /\ output = Null
    /\ output' = select_from_text_positions_without_nesting(input.tree, input.selection)
    /\ UNCHANGED <<heap, err, ret, last, steps, input>>

NextSplit == Split

SpecSplit == InitSplit /\ [][NextSplit]_vars

\* the ranges of the input that start inside the node's own content
StartingInContent == {r \in Range(input.selection) : r.start < Len(input.tree.content)}

\* a range of the node's selection holds [start, end) and ends in the content
AssignedLocally(start, end) ==
    \E s \in Range(output.node.selection) :
        s.start <= start /\ end <= s.end /\ s.end <= Len(input.tree.content)

selections_after_this_node(n, here) == SetOffset(here.unused, 0 - padded_length(n))

\* C25: every range the propagator hands from a node to its children, after
\* subtracting that node's padded length, has start >= 0 and start <= end, for
\* every ascending input set.
C25_HandedRangesAreRanges ==
    (output # Null /\ input.tree.children # <<>>) =>
        \A s \in Range(selections_after_this_node(input.tree, output)) :
            0 <= s.start /\ s.start <= s.end

====
